---- MODULE Spec2Model ----
(***************************************************************************)
(* Expense allocation and invoice lifecycle of the building portal         *)
(* (src/app/models/finance.py).  Money is counted in cents, shares in      *)
(* whole share quanta; the Decimal arithmetic of calculate_allocations is  *)
(* modelled digit by digit with the 28-digit context of Python's decimal   *)
(* module, and the Numeric(12, 2) column by its rounding to whole cents.   *)
(***************************************************************************)
EXTENDS Integers, Sequences, FiniteSets, Bags, TLC

\* ------------------------------------------------------------------------
\* Bounds of the model
\* ------------------------------------------------------------------------
NumUnits == 3
MaxShares == 2
MaxOccupancy == 2
MaxAmount == 1
MaxPayment == 2
MaxPaid == 3
MaxDue == 2
MaxDueTotal == 3
MaxFee == 1
MaxDay == 1

UnitIds == 1..NumUnits
\* None / SQL NULL in a column that otherwise holds a non-negative number
NULL == -1
\* shares: none, the small ones, and 3 and 5 for the spec's 2 : 3 : 5 example
ShareVals == {NULL} \cup (0..MaxShares) \cup {3, 5}
OccVals == 0..MaxOccupancy
\* amount_total values: the small ones and the spec's 100.00 and 1000.00 examples
AmountVals == (0..MaxAmount) \cup {10000, 100000}

\* ------------------------------------------------------------------------
\* Decimal arithmetic (non-negative values only: the CHECK constraints keep
\* amounts, shares and occupancy >= 0).  A decimal is a coefficient, written
\* as its digits without leading zeros (<<>> is zero), and an exponent.
\* ------------------------------------------------------------------------
Prec == 28

RECURSIVE IntDigits(_)
IntDigits(n) == IF n = 0 THEN <<>> ELSE Append(IntDigits(n \div 10), n % 10)

RECURSIVE DigitsInt(_)
DigitsInt(ds) ==
  IF ds = <<>> THEN 0
  ELSE 10 * DigitsInt(SubSeq(ds, 1, Len(ds) - 1)) + ds[Len(ds)]

RECURSIVE IncDigits(_)
\* the coefficient plus one
IncDigits(ds) ==
  IF ds = <<>> THEN <<1>>
  ELSE IF ds[Len(ds)] < 9
       THEN [ds EXCEPT ![Len(ds)] = @ + 1]
       ELSE Append(IncDigits(SubSeq(ds, 1, Len(ds) - 1)), 0)

AllZero(ds) == \A i \in 1..Len(ds) : ds[i] = 0

\* ROUND_HALF_EVEN of a coefficient to at most Prec digits
RoundPrec(d) ==
  IF Len(d.c) <= Prec THEN d
  ELSE LET kept == SubSeq(d.c, 1, Prec)
           drop == SubSeq(d.c, Prec + 1, Len(d.c))
           k    == Len(d.c) - Prec
           up   == \/ drop[1] > 5
                   \/ drop[1] = 5 /\ ~AllZero(Tail(drop))
                   \/ drop[1] = 5 /\ AllZero(Tail(drop)) /\ kept[Prec] % 2 = 1
           r    == IF up THEN IncDigits(kept) ELSE kept
       IN IF Len(r) > Prec
          THEN [c |-> SubSeq(r, 1, Prec), e |-> d.e + k + 1]
          ELSE [c |-> r, e |-> d.e + k]

RECURSIVE DivDigits(_, _, _, _)
\* long division: the digits of r / b after those of ds, up to Prec digits
DivDigits(r, b, ds, e) ==
  IF r = 0 \/ Len(ds) = Prec THEN [c |-> ds, e |-> e, r |-> r]
  ELSE LET d == (10 * r) \div b
       IN DivDigits((10 * r) % b, b,
                    IF ds = <<>> /\ d = 0 THEN <<>> ELSE Append(ds, d), e - 1)

\* Decimal(a) / Decimal(b), b > 0: the quotient correctly rounded to Prec digits
DecDiv(a, b) ==
  LET q  == DivDigits(a % b, b, IntDigits(a \div b), 0)
      up == \/ 2 * q.r > b
            \/ 2 * q.r = b /\ q.c[Len(q.c)] % 2 = 1
      r  == IF q.r # 0 /\ up THEN IncDigits(q.c) ELSE q.c
  IN IF Len(r) > Prec
     THEN [c |-> SubSeq(r, 1, Prec), e |-> q.e + 1]
     ELSE [c |-> r, e |-> q.e]

RECURSIVE MulDigits(_, _, _, _)
MulDigits(ds, n, i, carry) ==
  IF i = 0 THEN IntDigits(carry)
  ELSE LET v == ds[i] * n + carry
       IN Append(MulDigits(ds, n, i - 1, v \div 10), v % 10)

\* d * Decimal(n): the exact product rounded to Prec digits
DecMul(d, n) ==
  IF n = 0 \/ d.c = <<>> THEN [c |-> <<>>, e |-> 0]
  ELSE RoundPrec([c |-> MulDigits(d.c, n, Len(d.c), 0), e |-> d.e])

DecZero == [c |-> <<>>, e |-> 0]

\* a column that cuts the amount off at whole cents
ToCents_Truncate(d) ==
  IF d.e >= 0 THEN DigitsInt(d.c)
  ELSE LET k == 0 - d.e
           n == Len(d.c)
       IN IF k > n THEN 0
          ELSE DigitsInt(SubSeq(d.c, 1, n - k))

\* The value stored in a Numeric(12, 2) column for a decimal number of cents:
\* PostgreSQL rounds numeric half away from zero to the column's scale.
ToCents(d) ==
  IF d.e >= 0 THEN DigitsInt(d.c)
  ELSE LET k == 0 - d.e
           n == Len(d.c)
       IN IF k > n THEN 0
          ELSE DigitsInt(SubSeq(d.c, 1, n - k))
               + (IF d.c[n - k + 1] >= 5 THEN 1 ELSE 0)

\* ------------------------------------------------------------------------
\* State
\* ------------------------------------------------------------------------
VARIABLES
  units,              \* Unit rows: building_id, shares, occupancy_count, is_active
  allocation_method,  \* ExpenseCategory.allocation_method of the expense's category
  amount_total,       \* Expense.amount_total, in cents
  is_allocated,       \* Expense.is_allocated
  allocations,        \* the committed expense_allocations rows, a bag of rows
  gen_result,         \* outcome of the last generate_allocations call
  calls,              \* the requests inside generate_allocations: where each one
                      \* is and the rows it has still to save
  today,              \* date.today(), as a day number
  amount_due,         \* Invoice.amount_due, in cents
  amount_paid,        \* Invoice.amount_paid, in cents
  due_date,           \* Invoice.due_date, as a day number
  status,             \* Invoice.status
  late_fees,          \* Invoice.details['late_fees']
  applied,            \* the payments apply_to_invoice has added to the invoice so far
  applying,           \* the requests inside apply_to_invoice: the payment and the
                      \* invoice row each one has loaded
  categories,         \* the expense_categories rows, a bag of rows
  response,           \* the category route that answered last and its status code
  last_op             \* the last operation on the invoice, its input and what it returned

allocVars == <<units, allocation_method, amount_total, is_allocated, allocations, gen_result,
               calls>>
invoiceVars == <<today, amount_due, amount_paid, due_date, status, late_fees,
                 applied, applying, last_op>>
categoryVars == <<categories, response>>
vars == <<units, allocation_method, amount_total, is_allocated, allocations, gen_result,
          calls, today, amount_due, amount_paid, due_date, status, late_fees,
          applied, applying, last_op, categories, response>>

\* AllocationMethodEnum
SHARES == "shares"
PER_UNIT == "per_unit"
PER_PERSON == "per_person"
METERED == "metered"
CUSTOM == "custom"
AllocationMethodEnum == {SHARES, PER_UNIT, PER_PERSON, METERED, CUSTOM}

\* The one expense of the model, its category's building and another building
ExpenseId == 1
CategoryBuilding == 1
OtherBuilding == 2

RECURSIVE SumOver(_, _)
\* sum(f[x] for x in S)
SumOver(S, f) ==
  IF S = {} THEN 0
  ELSE LET x == CHOOSE y \in S : TRUE IN f[x] + SumOver(S \ {x}, f)

\* Unit.query.filter_by(building_id=self.building_id, is_active=True).all()
EligibleUnits(us) ==
  {u \in DOMAIN us : us[u].building_id = CategoryBuilding /\ us[u].is_active}

\* unit.shares or Decimal('0')
SharesOrZero(us) == [u \in DOMAIN us |-> IF us[u].shares = NULL THEN 0 ELSE us[u].shares]

\* calculate_allocations dividing, under PER_UNIT, by the number of all the
\* units instead of the eligible ones
calculate_allocations_PerUnitAll(us, method, total_amount) ==
  LET elig == EligibleUnits(us)
      total_shares == SumOver(elig, SharesOrZero(us))
      total_occupants == SumOver(elig, [u \in DOMAIN us |-> us[u].occupancy_count])
  IN CASE method = SHARES ->
            IF total_shares > 0
            THEN [u \in elig |->
                    IF us[u].shares # NULL /\ us[u].shares # 0
                    THEN DecMul(DecDiv(us[u].shares, total_shares), total_amount)
                    ELSE DecZero]
            ELSE << >>
       [] method = PER_UNIT ->
            IF elig # {}
            THEN LET amount_per_unit == DecDiv(total_amount, Cardinality(DOMAIN us))
                 IN [u \in elig |-> amount_per_unit]
            ELSE << >>
       [] method = PER_PERSON ->
            IF total_occupants > 0
            THEN LET amount_per_person == DecDiv(total_amount, total_occupants)
                 IN [u \in elig |-> DecMul(amount_per_person, us[u].occupancy_count)]
            ELSE << >>
       [] method = METERED -> [u \in elig |-> DecZero]
       [] OTHER -> [u \in elig |-> DecZero]

\* ExpenseCategory.calculate_allocations: unit id -> Decimal amount (in cents)
calculate_allocations(us, method, total_amount) ==
  LET elig == EligibleUnits(us)
      total_shares == SumOver(elig, SharesOrZero(us))
      total_occupants == SumOver(elig, [u \in DOMAIN us |-> us[u].occupancy_count])
  IN CASE method = SHARES ->
            IF total_shares > 0
            THEN [u \in elig |->
                    IF us[u].shares # NULL /\ us[u].shares # 0
                    THEN DecMul(DecDiv(us[u].shares, total_shares), total_amount)
                    ELSE DecZero]
            ELSE << >>
       [] method = PER_UNIT ->
            IF elig # {}
            THEN LET amount_per_unit == DecDiv(total_amount, Cardinality(elig))
                 IN [u \in elig |-> amount_per_unit]
            ELSE << >>
       [] method = PER_PERSON ->
            IF total_occupants > 0
            THEN LET amount_per_person == DecDiv(total_amount, total_occupants)
                 IN [u \in elig |-> DecMul(amount_per_person, us[u].occupancy_count)]
            ELSE << >>
       [] method = METERED -> [u \in elig |-> DecZero]
       [] OTHER -> [u \in elig |-> DecZero]

\* The ExpenseAllocation row generate_allocations builds for one unit; the
\* amount column is Numeric(12, 2), float(amount_total) names the same cents.
AllocationRow(unit_id, amount, method, total_amount, now) ==
  [expense_id |-> ExpenseId,
   unit_id |-> unit_id,
   amount |-> ToCents(amount),
   formula_snapshot |-> [method |-> method,
                         total_amount |-> total_amount,
                         calculation_date |-> now]]

\* saving by replacing the rows the table holds
InsertRows_Replace(rows, S) == SetToBag(S)

\* allocation.save() for each of the objects S: an INSERT and a COMMIT each
InsertRows(rows, S) == rows (+) SetToBag(S)

\* the table without its unique constraint
HasRow_NoConstraint(rows, unit_id) == FALSE

\* UniqueConstraint('expense_id', 'unit_id'): the INSERT for this unit is refused
HasRow(rows, unit_id) ==
  \E r \in BagToSet(rows) : r.expense_id = ExpenseId /\ r.unit_id = unit_id

RECURSIVE SumAmounts(_, _)
SumAmounts(S, rows) ==
  IF S = {} THEN 0
  ELSE LET r == CHOOSE x \in S : TRUE
       IN r.amount * CopiesIn(r, rows) + SumAmounts(S \ {r}, rows)

\* Expense.get_total_allocated: SUM(amount) over the rows of the expense
get_total_allocated(rows) ==
  SumAmounts({r \in BagToSet(rows) : r.expense_id = ExpenseId}, rows)

\* generate_allocations leaving out the units whose amount is zero
NewAllocations_SkipZero(us, method, total_amount, now) ==
  LET allocs == calculate_allocations(us, method, total_amount)
  IN {AllocationRow(u, allocs[u], method, total_amount, now) :
        u \in {v \in DOMAIN allocs : ToCents(allocs[v]) # 0}}

\* The ExpenseAllocation objects the loop of generate_allocations builds
NewAllocations(us, method, total_amount, now) ==
  LET allocs == calculate_allocations(us, method, total_amount)
  IN {AllocationRow(u, allocs[u], method, total_amount, now) : u \in DOMAIN allocs}

\* generate_allocations without its is_allocated guard
GenerateAllocations_NoGuard ==
  \E built \in {NewAllocations(units, allocation_method, amount_total, today)} :
  \E free \in {{r \in built : ~HasRow(allocations, r.unit_id)}} :
  \E saved \in SUBSET free, db_fails \in BOOLEAN :
       /\ (saved # built) => (db_fails \/ free # built)
       /\ allocations' = InsertRows(allocations, saved)
       /\ IF saved = built /\ ~db_fails
          THEN is_allocated' = TRUE /\ gen_result' = "True"
          ELSE is_allocated' = is_allocated /\ gen_result' = "raised"
       /\ UNCHANGED <<units, allocation_method, amount_total, calls, invoiceVars, categoryVars>>

\* Expense.generate_allocations.  The query has no ORDER BY and every save()
\* commits on its own, so a call that raises part-way leaves the rows of the
\* units it had reached (saved): any subset of the units still without a row.
\* It raises when an INSERT hits the unique constraint or when the database
\* fails (db_fails); otherwise it sets is_allocated and returns True.
GenerateAllocations ==
  IF is_allocated
  THEN /\ gen_result' = "False"
       /\ UNCHANGED <<units, allocation_method, amount_total, is_allocated, allocations,
                      calls, invoiceVars, categoryVars>>
  ELSE \E built \in {NewAllocations(units, allocation_method, amount_total, today)} :
       \E free \in {{r \in built : ~HasRow(allocations, r.unit_id)}} :
       \E saved \in SUBSET free, db_fails \in BOOLEAN :
            /\ (saved # built) => (db_fails \/ free # built)
            /\ allocations' = InsertRows(allocations, saved)
            /\ IF saved = built /\ ~db_fails
               THEN is_allocated' = TRUE /\ gen_result' = "True"
               ELSE is_allocated' = FALSE /\ gen_result' = "raised"
            /\ UNCHANGED <<units, allocation_method, amount_total, calls, invoiceVars, categoryVars>>

\* generate_allocations run by requests that overlap.  Each save() is an
\* INSERT and a COMMIT of its own, so the steps of a call are: the guard and
\* calculate_allocations, one step for every row, and the final commit of
\* is_allocated.  A call that returns or raises leaves its request idle.
Requests == {"r1", "r2"}
Idle == [pc |-> "idle", todo |-> {}]

\* if self.is_allocated: return False; allocations = calculate_allocations(...)
BeginGenerate(w) ==
  /\ calls[w].pc = "idle"
  /\ IF is_allocated
     THEN /\ gen_result' = "False"
          /\ calls' = calls
     ELSE \E built \in {NewAllocations(units, allocation_method, amount_total, today)} :
            /\ calls' = [calls EXCEPT ![w] = [pc |-> IF built = {} THEN "flag" ELSE "save",
                                              todo |-> built]]
            /\ gen_result' = gen_result
  /\ UNCHANGED <<units, allocation_method, amount_total, is_allocated, allocations,
                 invoiceVars, categoryVars>>

\* allocation.save() of the next row; the items come in the order of a query
\* without ORDER BY.  The unique constraint refuses a row whose unit has one.
SaveAllocation(w) ==
  /\ calls[w].pc = "save"
  /\ \E r \in calls[w].todo :
       IF HasRow(allocations, r.unit_id)
       THEN /\ calls' = [calls EXCEPT ![w] = Idle]
            /\ gen_result' = "raised"
            /\ allocations' = allocations
       ELSE /\ allocations' = InsertRows(allocations, {r})
            /\ calls' = [calls EXCEPT ![w] =
                           [pc |-> IF calls[w].todo = {r} THEN "flag" ELSE "save",
                            todo |-> calls[w].todo \ {r}]]
            /\ gen_result' = gen_result
  /\ UNCHANGED <<units, allocation_method, amount_total, is_allocated, invoiceVars, categoryVars>>

\* self.is_allocated = True; db.session.commit(); return True
SetAllocated(w) ==
  /\ calls[w].pc = "flag"
  /\ is_allocated' = TRUE
  /\ gen_result' = "True"
  /\ calls' = [calls EXCEPT ![w] = Idle]
  /\ UNCHANGED <<units, allocation_method, amount_total, allocations, invoiceVars, categoryVars>>

\* the database fails under a call that is saving: the call raises
SaveFails(w) ==
  /\ calls[w].pc \in {"save", "flag"}
  /\ gen_result' = "raised"
  /\ calls' = [calls EXCEPT ![w] = Idle]
  /\ UNCHANGED <<units, allocation_method, amount_total, is_allocated, allocations,
                 invoiceVars, categoryVars>>

\* ------------------------------------------------------------------------
\* Invoices and payments
\* ------------------------------------------------------------------------
\* InvoiceStatusEnum
UNPAID == "unpaid"
PARTIAL == "partial"
PAID == "paid"
OVERDUE == "overdue"
CANCELLED == "cancelled"
InvoiceStatusEnum == {UNPAID, PARTIAL, PAID, OVERDUE, CANCELLED}

\* The one invoice of the model
InvoiceId == 1

\* a balance that stops at zero instead of going negative
balance_due_Clamped(due, paid) == IF due > paid THEN due - paid ELSE 0

\* Invoice.balance_due
balance_due(due, paid) == due - paid

\* Invoice.is_overdue
is_overdue(dd, td, st) == dd < td /\ st \notin {PAID, CANCELLED}

\* update_status testing the due date before the partial payment
update_status_OverdueFirst(st, paid, due, dd, td) ==
  IF paid >= due THEN PAID
  ELSE IF dd < td /\ st \notin {PAID, CANCELLED} THEN OVERDUE
  ELSE IF paid > 0 THEN PARTIAL
  ELSE UNPAID

\* update_status taking an invoice paid in full for a partly paid one
update_status_StrictPaid(st, paid, due, dd, td) ==
  IF paid > due THEN PAID
  ELSE IF paid > 0 THEN PARTIAL
  ELSE IF dd < td /\ st \notin {PAID, CANCELLED} THEN OVERDUE
  ELSE UNPAID

\* Invoice.update_status: the status it stores
update_status(st, paid, due, dd, td) ==
  IF paid >= due THEN PAID
  ELSE IF paid > 0 THEN PARTIAL
  ELSE IF is_overdue(dd, td, st) THEN OVERDUE
  ELSE UNPAID

\* The payments table: one Payment of every kind, amount > 0 by its CHECK
\* constraint, linked to the invoice or to none
Payments == [amount : 1..MaxPayment, is_confirmed : BOOLEAN, invoice : {NULL, InvoiceId}]
NoPayment == [amount |-> 0, is_confirmed |-> FALSE, invoice |-> NULL]

\* what the invoice looked like when the last operation started
Before == [status |-> status]

\* apply_to_invoice without the is_confirmed test
ApplyToInvoice_Unconfirmed(p) ==
  IF p.invoice # NULL
  THEN /\ amount_paid + p.amount <= MaxPaid
       /\ amount_paid' = amount_paid + p.amount
       /\ status' = update_status(status, amount_paid', amount_due, due_date, today)
       /\ applied' = applied \cup {p}
       /\ last_op' = [op |-> "apply_to_invoice", payment |-> p, returned |-> "True",
                      before |-> Before]
       /\ UNCHANGED <<today, amount_due, due_date, late_fees, applying, allocVars, categoryVars>>
  ELSE /\ last_op' = [op |-> "apply_to_invoice", payment |-> p, returned |-> "False",
                      before |-> Before]
       /\ UNCHANGED <<today, amount_due, amount_paid, due_date, status, late_fees, applied, applying, allocVars, categoryVars>>

\* apply_to_invoice storing the payment's amount instead of adding it
ApplyToInvoice_Overwrite(p) ==
  IF p.invoice # NULL /\ p.is_confirmed
  THEN /\ amount_paid + p.amount <= MaxPaid
       /\ amount_paid' = p.amount
       /\ status' = update_status(status, amount_paid', amount_due, due_date, today)
       /\ applied' = applied \cup {p}
       /\ last_op' = [op |-> "apply_to_invoice", payment |-> p, returned |-> "True",
                      before |-> Before]
       /\ UNCHANGED <<today, amount_due, due_date, late_fees, applying, allocVars, categoryVars>>
  ELSE /\ last_op' = [op |-> "apply_to_invoice", payment |-> p, returned |-> "False",
                      before |-> Before]
       /\ UNCHANGED <<today, amount_due, amount_paid, due_date, status, late_fees, applied, applying, allocVars, categoryVars>>

\* apply_to_invoice without the status recompute
ApplyToInvoice_NoRecompute(p) ==
  IF p.invoice # NULL /\ p.is_confirmed
  THEN /\ amount_paid + p.amount <= MaxPaid
       /\ amount_paid' = amount_paid + p.amount
       /\ applied' = applied \cup {p}
       /\ last_op' = [op |-> "apply_to_invoice", payment |-> p, returned |-> "True",
                      before |-> Before]
       /\ UNCHANGED <<today, amount_due, due_date, status, late_fees, applying, allocVars, categoryVars>>
  ELSE /\ last_op' = [op |-> "apply_to_invoice", payment |-> p, returned |-> "False",
                      before |-> Before]
       /\ UNCHANGED <<today, amount_due, amount_paid, due_date, status, late_fees, applied, applying, allocVars, categoryVars>>

\* Payment.apply_to_invoice
ApplyToInvoice(p) ==
  IF p.invoice # NULL /\ p.is_confirmed
  THEN /\ amount_paid + p.amount <= MaxPaid
       /\ amount_paid' = amount_paid + p.amount
       /\ status' = update_status(status, amount_paid', amount_due, due_date, today)
       /\ applied' = applied \cup {p}
       /\ last_op' = [op |-> "apply_to_invoice", payment |-> p, returned |-> "True",
                      before |-> Before]
       /\ UNCHANGED <<today, amount_due, due_date, late_fees, applying, allocVars, categoryVars>>
  ELSE /\ last_op' = [op |-> "apply_to_invoice", payment |-> p, returned |-> "False",
                      before |-> Before]
       /\ UNCHANGED <<today, amount_due, amount_paid, due_date, status, late_fees, applied, applying, allocVars, categoryVars>>

\* apply_to_invoice recomputing the status before it adds the amount
apply_to_invoice_StatusFirst(p, inv, due, dd, td) ==
  IF p.invoice # NULL /\ p.is_confirmed
  THEN [amount_paid |-> inv.amount_paid + p.amount,
        status |-> update_status(inv.status, inv.amount_paid, due, dd, td)]
  ELSE inv

\* Payment.apply_to_invoice as a function of the invoice it finds: the
\* amount_paid and the status it leaves
apply_to_invoice(p, inv, due, dd, td) ==
  IF p.invoice # NULL /\ p.is_confirmed
  THEN [amount_paid |-> inv.amount_paid + p.amount,
        status |-> update_status(inv.status, inv.amount_paid + p.amount, due, dd, td)]
  ELSE inv

\* apply_to_invoice run by requests that overlap.  A request loads the
\* invoice row when it reaches self.invoice, works on that copy, and the
\* commit inside update_status writes the attributes it changed: amount_paid
\* as the value computed from the copy, and status when it differs from the
\* copy's.  Nothing locks the row or checks a version.
NotApplying ==
  [pc |-> "idle", payment |-> NoPayment,
   invoice |-> [amount_paid |-> 0, amount_due |-> 0, due_date |-> 0, status |-> UNPAID]]

\* if self.invoice and self.is_confirmed: (the invoice is loaded) ... else: return False
BeginApply(w, p) ==
  /\ applying[w].pc = "idle"
  /\ IF p.invoice # NULL /\ p.is_confirmed
     THEN /\ amount_paid + p.amount <= MaxPaid
          /\ applying' = [applying EXCEPT ![w] =
                            [pc |-> "loaded", payment |-> p,
                             invoice |-> [amount_paid |-> amount_paid,
                                          amount_due |-> amount_due,
                                          due_date |-> due_date,
                                          status |-> status]]]
          /\ last_op' = last_op
     ELSE /\ applying' = applying
          /\ last_op' = [op |-> "apply_to_invoice", payment |-> p, returned |-> "False",
                         before |-> Before]
  /\ UNCHANGED <<today, amount_due, amount_paid, due_date, status, late_fees, applied,
                 allocVars, categoryVars>>

\* self.invoice.amount_paid += self.amount; self.invoice.update_status(); return True
CommitApply(w) ==
  /\ applying[w].pc = "loaded"
  /\ \E inv \in {applying[w].invoice}, p \in {applying[w].payment} :
     \E paid \in {inv.amount_paid + p.amount} :
     \E st \in {update_status(inv.status, paid, inv.amount_due, inv.due_date, today)} :
       /\ paid <= MaxPaid
       /\ amount_paid' = paid
       /\ status' = IF st # inv.status THEN st ELSE status
       /\ applied' = applied \cup {p}
       /\ last_op' = [op |-> "apply_to_invoice", payment |-> p, returned |-> "True",
                      before |-> Before]
  /\ applying' = [applying EXCEPT ![w] = NotApplying]
  /\ UNCHANGED <<today, amount_due, due_date, late_fees, allocVars, categoryVars>>

\* Invoice.update_status
UpdateStatus ==
  /\ status' = update_status(status, amount_paid, amount_due, due_date, today)
  /\ last_op' = [op |-> "update_status", payment |-> NoPayment, returned |-> "None",
                 before |-> Before]
  /\ UNCHANGED <<today, amount_due, amount_paid, due_date, late_fees, applied, applying, allocVars, categoryVars>>

\* Invoice.add_late_fee.  late_fees is details['late_fees'] as the database
\* holds it after the commit (the commit expires the loaded object, so this
\* is also what the caller reads next).  details is a plain JSONB column:
\* the assignment self.details = {} of an empty details is flushed with
\* whatever the dictionary holds by then, whereas the append to a list that
\* is already there changes the loaded value in place, which the session
\* does not see (no flag_modified, as src/app/extensions/routes.py:268-270
\* has for Building.settings), so the UPDATE carries amount_due only.
AddLateFee(fee_amount) ==
  /\ amount_due + fee_amount <= MaxDueTotal
  /\ amount_due' = amount_due + fee_amount
  /\ late_fees' = IF late_fees = << >>
                  THEN << [amount |-> fee_amount, date |-> today,
                           reason |-> "Late payment fee"] >>
                  ELSE late_fees
  /\ last_op' = [op |-> "add_late_fee", payment |-> NoPayment, returned |-> "None",
                 before |-> Before]
  /\ UNCHANGED <<today, amount_paid, due_date, status, applied, applying, allocVars, categoryVars>>

\* InvoiceModelView.column_editable_list: the back office sets the status
AdminSetStatus(st) ==
  /\ status # st
  /\ status' = st
  /\ last_op' = [op |-> "admin_set_status", payment |-> NoPayment, returned |-> "None",
                 before |-> Before]
  /\ UNCHANGED <<today, amount_due, amount_paid, due_date, late_fees, applied, applying, allocVars, categoryVars>>

\* a day passes: date.today() moves on
DayPasses ==
  /\ today < MaxDay
  /\ today' = today + 1
  /\ last_op' = [op |-> "day_passes", payment |-> NoPayment, returned |-> "None",
                 before |-> Before]
  /\ UNCHANGED <<amount_due, amount_paid, due_date, status, late_fees, applied, applying, allocVars, categoryVars>>

\* ------------------------------------------------------------------------
\* Expense categories (src/app/finance/routes.py)
\* ------------------------------------------------------------------------
Buildings == {CategoryBuilding, OtherBuilding}

\* a key that the JSON body of a request does not have
Absent == "absent"

\* An expense_categories row; has_expense tells the category of the expense
\* (Expense.category_id), whose method is the variable allocation_method.
CategoryRow(building_id, code, method, has_expense) ==
  [building_id |-> building_id, code |-> code, allocation_method |-> method,
   has_expense |-> has_expense]

\* the standard_categories list of api_import_categories
standard_categories ==
  {[code |-> "cleaning", allocation_method |-> PER_UNIT],
   [code |-> "lift", allocation_method |-> PER_UNIT],
   [code |-> "repairs", allocation_method |-> SHARES],
   [code |-> "landscaping", allocation_method |-> SHARES],
   [code |-> "security", allocation_method |-> SHARES],
   [code |-> "water", allocation_method |-> METERED],
   [code |-> "electricity", allocation_method |-> METERED]}

\* ExpenseCategory.query.filter_by(building_id=..., code=...).first() is not None
ExistingCategory(cats, building_id, code) ==
  \E r \in BagToSet(cats) : r.building_id = building_id /\ r.code = code

\* UniqueConstraint('building_id', 'code'): what the table must satisfy at commit
unique_category_code_per_building(cats) ==
  \A r1, r2 \in BagToSet(cats) :
    (r1.building_id = r2.building_id /\ r1.code = r2.code)
      => (r1 = r2 /\ CopiesIn(r1, cats) = 1)

\* api_create_category
ApiCreateCategory(data, has_access) ==
  /\ \E code \in {CASE data.building_id = NULL \/ data.code = "" \/ data.allocation_method = ""
                        -> 400
                    [] ~has_access -> 403
                    [] ExistingCategory(categories, data.building_id, data.code) -> 400
                    [] data.allocation_method \notin AllocationMethodEnum -> 400
                    [] OTHER -> 200} :
     \E new \in {categories (+) SetToBag({CategoryRow(data.building_id, data.code,
                                                       data.allocation_method, FALSE)})} :
       IF code = 200 /\ unique_category_code_per_building(new)
       THEN /\ categories' = new
            /\ response' = [route |-> "api_create_category", status |-> 200]
       ELSE /\ categories' = categories
            /\ response' = [route |-> "api_create_category",
                            status |-> IF code = 200 THEN 500 ELSE code]
  /\ UNCHANGED <<allocVars, invoiceVars>>

\* the codes that occur: those of the standard list and one more
Codes == {c.code : c \in standard_categories} \cup {"garage"}

\* what a category_id in a URL may point at: a building's category of a code
CategoryKeys == [building_id : Buildings, code : Codes]

\* api_update_category for the category that target names (get_or_404 raises
\* when there is none, which the handler answers with 500): the code is
\* checked and set first, then the method; nothing is committed when either
\* is refused.
ApiUpdateCategory(target, data, has_access) ==
  IF ~ExistingCategory(categories, target.building_id, target.code)
  THEN /\ response' = [route |-> "api_update_category", status |-> 500]
       /\ UNCHANGED <<categories, allocVars, invoiceVars>>
  ELSE
  /\ \E category \in {r \in BagToSet(categories) :
                         r.building_id = target.building_id /\ r.code = target.code} :
     \E others \in {categories (-) SetToBag({category})} :
     \E code \in {CASE ~has_access -> 403
                    [] data.code # Absent
                       /\ ExistingCategory(others, category.building_id, data.code) -> 400
                    [] data.allocation_method # Absent
                       /\ data.allocation_method \notin AllocationMethodEnum -> 400
                    [] OTHER -> 200} :
     \E updated \in {CategoryRow(category.building_id,
                                  IF data.code = Absent THEN category.code ELSE data.code,
                                  IF data.allocation_method = Absent
                                  THEN category.allocation_method
                                  ELSE data.allocation_method,
                                  category.has_expense)} :
       IF code = 200 /\ unique_category_code_per_building(others (+) SetToBag({updated}))
       THEN /\ categories' = others (+) SetToBag({updated})
            /\ allocation_method' = IF category.has_expense
                                    THEN updated.allocation_method
                                    ELSE allocation_method
            /\ response' = [route |-> "api_update_category", status |-> 200]
       ELSE /\ categories' = categories
            /\ allocation_method' = allocation_method
            /\ response' = [route |-> "api_update_category",
                            status |-> IF code = 200 THEN 500 ELSE code]
  /\ UNCHANGED <<units, amount_total, is_allocated, allocations, gen_result, calls,
                 invoiceVars>>

\* an import that replaces the categories whose code it finds
ImportInto_Replace(cats, building_id, source) ==
  LET kept == {r \in BagToSet(cats) :
                 ~(r.building_id = building_id /\ \E c \in source : c.code = r.code)}
  IN SetToBag(kept)
       (+) SetToBag({CategoryRow(building_id, c.code, c.allocation_method, FALSE) :
                       c \in source})

\* The loop of api_import_categories over the source categories: a category
\* is added for every code the building does not have yet (the query in the
\* loop flushes the session, so it sees the categories added before it).
ImportInto(cats, building_id, source) ==
  LET codes == {c.code : c \in source} \ {r.code : r \in {x \in BagToSet(cats) :
                                                              x.building_id = building_id}}
      first(code) == CHOOSE c \in source : c.code = code
  IN cats (+) SetToBag({CategoryRow(building_id, code, first(code).allocation_method,
                                     FALSE) : code \in codes})

\* api_import_categories
ApiImportCategories(data, has_access) ==
  /\ \E code \in {CASE data.building_id = NULL -> 400
                    [] ~has_access -> 403
                    [] data.method = "template" /\ data.source_building_id = NULL -> 400
                    [] data.method \notin {"template", "standard"} -> 400
                    [] OTHER -> 200} :
     \E source \in {IF data.method = "template"
                     THEN {[code |-> r.code, allocation_method |-> r.allocation_method] :
                             r \in {x \in BagToSet(categories) :
                                      x.building_id = data.source_building_id}}
                     ELSE standard_categories} :
     \E new \in {IF code = 200 THEN ImportInto(categories, data.building_id, source)
                  ELSE categories} :
       IF code = 200 /\ unique_category_code_per_building(new)
       THEN /\ categories' = new
            /\ response' = [route |-> "api_import_categories", status |-> 200]
       ELSE /\ categories' = categories
            /\ response' = [route |-> "api_import_categories",
                            status |-> IF code = 200 THEN 500 ELSE code]
  /\ UNCHANGED <<allocVars, invoiceVars>>

\* ------------------------------------------------------------------------
\* Specifications
\* ------------------------------------------------------------------------
NoOp == [op |-> "none", payment |-> NoPayment, returned |-> "None",
         before |-> [status |-> UNPAID]]

\* a new expense: is_allocated defaults to False, no allocation rows
InitExpense ==
  /\ is_allocated = FALSE
  /\ allocations = EmptyBag
  /\ gen_result = "none"
  /\ calls = [w \in Requests |-> Idle]

\* the building's categories: the expense's own, with the method in force
InitCategories ==
  /\ categories = SetToBag({CategoryRow(CategoryBuilding, "repairs", allocation_method, TRUE)})
  /\ response = [route |-> "none", status |-> 0]

\* a new invoice: amount_paid defaults to 0, status to UNPAID, details to {}
InitInvoice ==
  /\ amount_paid = 0
  /\ status = UNPAID
  /\ late_fees = << >>
  /\ applied = {}
  /\ applying = [w \in Requests |-> NotApplying]
  /\ last_op = NoOp

\* the invoice side at rest, for the allocation specification
IdleInvoice ==
  /\ InitInvoice
  /\ today = 0
  /\ amount_due = 0
  /\ due_date = 0

\* the expense side at rest, for the invoice specification
IdleExpense ==
  /\ InitExpense
  /\ units = [u \in UnitIds |-> [building_id |-> CategoryBuilding, shares |-> NULL,
                                 occupancy_count |-> 0, is_active |-> TRUE]]
  /\ allocation_method = SHARES
  /\ amount_total = 0
  /\ InitCategories

\* Units as the allocation may find them.  An attribute the category's method
\* does not read keeps its column default, and so do both weights of a unit
\* that is not eligible.
UnitRows(method) ==
  [building_id : {CategoryBuilding}, is_active : {TRUE},
   shares : IF method = SHARES THEN ShareVals ELSE {NULL},
   occupancy_count : IF method = PER_PERSON THEN OccVals ELSE {0}]
  \cup
  {[building_id |-> CategoryBuilding, is_active |-> FALSE, shares |-> NULL,
    occupancy_count |-> 0],
   [building_id |-> OtherBuilding, is_active |-> TRUE, shares |-> NULL,
    occupancy_count |-> 0]}

InitAlloc ==
  /\ allocation_method \in AllocationMethodEnum
  /\ units \in [UnitIds -> UnitRows(allocation_method)]
  /\ amount_total \in AmountVals
  /\ InitExpense
  /\ InitCategories
  /\ IdleInvoice

NextAlloc == GenerateAllocations

SpecAlloc == InitAlloc /\ [][NextAlloc]_vars

\* Overlapping calls: the units differ in whether they are eligible, and an
\* eligible unit has a share and an occupant so that every method allocates.
UnitRowsConcurrent ==
  {[building_id |-> CategoryBuilding, is_active |-> TRUE, shares |-> 1,
    occupancy_count |-> 1],
   [building_id |-> CategoryBuilding, is_active |-> FALSE, shares |-> NULL,
    occupancy_count |-> 0]}

InitConcurrent ==
  /\ allocation_method \in AllocationMethodEnum
  /\ units \in [UnitIds -> UnitRowsConcurrent]
  /\ amount_total = 1
  /\ InitExpense
  /\ InitCategories
  /\ IdleInvoice

NextConcurrent ==
  \/ \E w \in Requests : BeginGenerate(w)
  \/ \E w \in Requests : SaveAllocation(w)
  \/ \E w \in Requests : SetAllocated(w)
  \/ \E w \in Requests : SaveFails(w)

\* two requests calling generate_allocations on the same expense, again and
\* again, their steps interleaved
SpecConcurrent == InitConcurrent /\ [][NextConcurrent]_vars

\* the PUT requests that change the method of a category: the expense's
\* category is among their targets, so is a category that does not exist
MethodUpdateBodies ==
  [code : {Absent}, allocation_method : AllocationMethodEnum \cup {Absent, "bogus"}]
MethodUpdateTargets == [building_id : {CategoryBuilding}, code : {"repairs", "garage"}]

InitRecategorise ==
  /\ allocation_method \in AllocationMethodEnum
  /\ units \in [UnitIds -> UnitRowsConcurrent]
  /\ amount_total = 10000
  /\ InitExpense
  /\ InitCategories
  /\ IdleInvoice

NextRecategorise ==
  \/ GenerateAllocations
  \/ \E target \in MethodUpdateTargets : \E data \in MethodUpdateBodies :
       \E has_access \in BOOLEAN : ApiUpdateCategory(target, data, has_access)

\* the expense is allocated, again and again, while its category is edited
SpecRecategorise == InitRecategorise /\ [][NextRecategorise]_vars

InitInv ==
  /\ today = 0
  /\ amount_due \in 0..MaxDue
  /\ due_date \in 0..MaxDay
  /\ InitInvoice
  /\ IdleExpense

\* the requests to the category routes: bodies with and without their
\* required fields, codes that are taken and codes that are free
CreateBodies ==
  [building_id : Buildings \cup {NULL}, code : {"garage", "cleaning", ""},
   allocation_method : {PER_PERSON, "bogus"}]
CodeUpdateTargets == [building_id : {CategoryBuilding}, code : {"repairs", "garage"}]
CodeUpdateBodies ==
  [code : {"repairs", "garage", "lift"}, allocation_method : {Absent, "bogus"}]
ImportBodies ==
  [method : {"template", "standard", "bogus"}, building_id : Buildings \cup {NULL},
   source_building_id : {OtherBuilding, NULL}]

InitCategoryRoutes ==
  /\ IdleInvoice
  /\ IdleExpense

NextCategoryRoutes ==
  \/ \E data \in CreateBodies, has_access \in BOOLEAN : ApiCreateCategory(data, has_access)
  \/ \E target \in CodeUpdateTargets, data \in CodeUpdateBodies, has_access \in BOOLEAN :
       ApiUpdateCategory(target, data, has_access)
  \/ \E data \in ImportBodies, has_access \in BOOLEAN : ApiImportCategories(data, has_access)

\* the category routes called one after the other, in any order
SpecCategoryRoutes == InitCategoryRoutes /\ [][NextCategoryRoutes]_vars

NextInv ==
  \/ \E p \in Payments : ApplyToInvoice(p)
  \/ UpdateStatus
  \/ \E fee_amount \in 1..MaxFee : AddLateFee(fee_amount)
  \/ DayPasses

\* the model methods of the invoice, called in any order as the days pass
SpecInv == InitInv /\ [][NextInv]_vars

NextApplyConcurrent ==
  \/ \E w \in Requests : \E p \in Payments : BeginApply(w, p)
  \/ \E w \in Requests : CommitApply(w)

\* two requests applying payments to the same invoice, their steps interleaved
SpecApplyConcurrent == InitInv /\ [][NextApplyConcurrent]_vars

NextInvAdmin ==
  \/ \E p \in Payments : ApplyToInvoice(p)
  \/ UpdateStatus
  \/ \E fee_amount \in 1..MaxFee : AddLateFee(fee_amount)
  \/ DayPasses
  \/ \E st \in InvoiceStatusEnum : AdminSetStatus(st)

\* the same with the back office editing the status
SpecInvAdmin == InitInv /\ [][NextInvAdmin]_vars

\* ------------------------------------------------------------------------
\* Properties of the allocation
\* ------------------------------------------------------------------------
RoundedMethods == {SHARES, PER_UNIT, PER_PERSON}

\* the units calculate_allocations returns an amount for
AllocatedUnits == DOMAIN calculate_allocations(units, allocation_method, amount_total)

RowsOf(u) == {r \in BagToSet(allocations) : r.expense_id = ExpenseId /\ r.unit_id = u}

\* C1: after a successful generate_allocations with method SHARES, PER_UNIT
\* or PER_PERSON that allocated to at least one unit, the persisted amounts
\* add up to amount_total exactly.
C1_SumEqualsTotal ==
  (gen_result = "True" /\ allocation_method \in RoundedMethods /\ AllocatedUnits # {})
    => get_total_allocated(allocations) = amount_total

\* C2: generate_allocations on an expense that is already allocated returns
\* False, leaves every allocation row as it is and leaves is_allocated true.
C2_AllocatedIsNoOp ==
  [][(is_allocated /\ GenerateAllocations)
       => (gen_result' = "False" /\ allocations' = allocations /\ is_allocated')]_vars

\* a second call was made on an allocated expense that has rows
C2_Witness ==
  (gen_result = "False" /\ is_allocated /\ allocations # EmptyBag)

\* C3: an expense is either allocated with exactly one row for every unit the
\* allocation computed, or not allocated and without any row.
C3_Atomic ==
  \/ /\ is_allocated
     /\ \A u \in AllocatedUnits : \E r \in RowsOf(u) : RowsOf(u) = {r} /\ CopiesIn(r, allocations) = 1
  \/ /\ ~is_allocated
     /\ allocations = EmptyBag

\* ------------------------------------------------------------------------
\* Properties of the invoice lifecycle
\* ------------------------------------------------------------------------
\* The transition rule of the status: a function of the amounts and the dates
TransitionRule(paid, due, dd, td) ==
  IF paid >= due THEN PAID
  ELSE IF paid > 0 THEN PARTIAL
  ELSE IF dd < td THEN OVERDUE
  ELSE UNPAID

\* the step is a call of the named method (last_op' is what the call recorded)
Applies == last_op'.op = "apply_to_invoice"
Recomputes == last_op'.op = "update_status"
AddsFee == last_op'.op = "add_late_fee"
Linked(p) == p.invoice # NULL /\ p.is_confirmed

\* C4: applying a payment that was already applied to the invoice leaves
\* amount_paid as the first application left it.
C4_ReplayAddsNothing ==
  [][(Applies /\ last_op'.payment \in applied) => amount_paid' = amount_paid]_vars

\* C5: update_status, called directly or through apply_to_invoice, leaves a
\* CANCELLED invoice CANCELLED, and never makes an invoice CANCELLED.
C5_CancelledKept ==
  [][(Applies \/ Recomputes) => (status' = CANCELLED <=> status = CANCELLED)]_vars

\* C6: update_status on an invoice that is not CANCELLED stores the value of
\* the transition rule, whatever the status was before the call.
C6_StatusIsRule ==
  [][(Recomputes /\ status # CANCELLED)
       => status' = TransitionRule(amount_paid, amount_due, due_date, today)]_vars

\* C7: in the state any update_status, add_late_fee or successful
\* apply_to_invoice call leaves, whatever calls and days went before, the
\* stored status of an invoice that is not CANCELLED is the value of the
\* transition rule for its amounts, its due date and today.
C7_StoredStatusIsRule ==
  (/\ \/ last_op.op \in {"update_status", "add_late_fee"}
      \/ last_op.op = "apply_to_invoice" /\ last_op.returned = "True"
   /\ status # CANCELLED)
    => status = TransitionRule(amount_paid, amount_due, due_date, today)

C9_ApplyAddsAndRecomputes ==
  [][(Applies /\ Linked(last_op'.payment))
       => /\ last_op'.returned = "True"
          /\ amount_paid' = amount_paid + last_op'.payment.amount
          /\ amount_due' = amount_due
          /\ status' = TransitionRule(amount_paid', amount_due', due_date', today')]_vars

\* a confirmed payment was applied to an overdue invoice and left it partly paid
C9_Witness ==
  (last_op.op = "apply_to_invoice" /\ last_op.returned = "True"
    /\ last_op.before.status = OVERDUE /\ status = PARTIAL)

\* C10: apply_to_invoice on a payment that is not confirmed, or that has no
\* invoice, returns False and leaves amount_paid, amount_due and status alone.
C10_UnconfirmedChangesNothing ==
  [][(Applies /\ ~Linked(last_op'.payment))
       => /\ last_op'.returned = "False"
          /\ amount_paid' = amount_paid
          /\ amount_due' = amount_due
          /\ status' = status]_vars

\* an unconfirmed payment of the invoice was applied and refused
C10_Witness ==
  (last_op.op = "apply_to_invoice" /\ last_op.returned = "False"
    /\ ~last_op.payment.is_confirmed /\ last_op.payment.invoice = InvoiceId)

\* C11: right after add_late_fee the stored status is the one the transition
\* rule gives for the raised amount_due and the unchanged amount_paid.
C11_FeeRecomputes ==
  [][AddsFee => status' = TransitionRule(amount_paid, amount_due', due_date', today')]_vars

\* C12: add_late_fee raises amount_due by exactly the fee, appends exactly
\* one entry for that fee to details['late_fees'] keeping every earlier entry,
\* and leaves amount_paid as it was.
C12_FeeAddsAndRecords ==
  [][AddsFee =>
       \E fee_amount \in 1..MaxFee :
         /\ amount_due' = amount_due + fee_amount
         /\ amount_due' >= amount_due
         /\ Len(late_fees') = Len(late_fees) + 1
         /\ SubSeq(late_fees', 1, Len(late_fees)) = late_fees
         /\ late_fees'[Len(late_fees')].amount = fee_amount
         /\ late_fees'[Len(late_fees')].reason = "Late payment fee"
         /\ amount_paid' = amount_paid]_vars

\* C15: amount_paid never goes down and is never negative: no step of
\* apply_to_invoice, add_late_fee or update_status (nor a status edit, nor a
\* day passing) lowers it, payment amounts being positive.
C15_PaidNeverLowered ==
  [][amount_paid' >= amount_paid /\ amount_paid >= 0 /\ amount_paid' >= 0]_vars

\* a payment has been added on top of an amount paid before, and a late fee
\* has been charged
C15_Witness ==
  /\ last_op.op = "apply_to_invoice"
  /\ last_op.returned = "True"
  /\ amount_paid > last_op.payment.amount
  /\ late_fees # << >>

\* C16: update_status on an invoice with 0 < amount_paid < amount_due stores
\* PARTIAL, wherever the due date lies and whatever the status was.
C16_PartlyPaidIsPartial ==
  [][(Recomputes /\ 0 < amount_paid /\ amount_paid < amount_due) => status' = PARTIAL]_vars

\* update_status ran on a partly paid invoice past its due date
C16_Witness ==
  /\ last_op.op = "update_status"
  /\ 0 < amount_paid
  /\ amount_paid < amount_due
  /\ due_date < today
  /\ last_op.before.status # PARTIAL
  /\ status = PARTIAL

\* C17: balance_due is amount_due minus amount_paid without clamping: it is 0
\* exactly when amount_paid = amount_due (update_status then stores PAID) and
\* negative when the invoice is overpaid.
C17_BalanceNotClamped ==
  /\ balance_due(amount_due, amount_paid) + amount_paid = amount_due
  /\ (balance_due(amount_due, amount_paid) = 0) <=> (amount_paid = amount_due)
  /\ (amount_paid > amount_due) => (balance_due(amount_due, amount_paid) < 0)
  /\ (last_op.op = "update_status" /\ balance_due(amount_due, amount_paid) = 0)
       => status = PAID

\* an overpaid invoice, after update_status
C17_Witness ==
  /\ last_op.op = "update_status"
  /\ amount_paid > amount_due
  /\ balance_due(amount_due, amount_paid) < 0
  /\ status = PAID

\* ------------------------------------------------------------------------
\* Properties of the rounding and of the allocated unit set
\* ------------------------------------------------------------------------
\* C13: every stored amount is the raw amount rounded to whole cents, except
\* on one unit, which also takes the residual (amount_total minus the sum of
\* the rounded amounts): 100.00 over three units gives 33.33, 33.33, 33.34.
C13_ResidualOnOneUnit ==
  (gen_result = "True" /\ allocation_method \in RoundedMethods /\ AllocatedUnits # {})
    => \E raw \in {calculate_allocations(units, allocation_method, amount_total)} :
       \E residual \in {amount_total
                          - SumOver(DOMAIN raw, [u \in DOMAIN raw |-> ToCents(raw[u])])} :
       \E designated \in DOMAIN raw :
         \A u \in DOMAIN raw :
           \E r \in RowsOf(u) :
             r.amount = ToCents(raw[u]) + (IF u = designated THEN residual ELSE 0)

\* C14: the table never holds two ExpenseAllocation rows for the same expense
\* and unit, whether the calls of generate_allocations follow each other or
\* two of them run at once on the same unallocated expense.
C14_OneRowPerUnit ==
  /\ \A r \in BagToSet(allocations) : CopiesIn(r, allocations) = 1
  /\ \A r1, r2 \in BagToSet(allocations) :
       (r1.expense_id = r2.expense_id /\ r1.unit_id = r2.unit_id) => r1 = r2

\* both requests are saving and one of them is about to save a unit that the
\* other has already given a row
C14_Witness ==
  /\ \A w \in Requests : calls[w].pc = "save"
  /\ \E w \in Requests : \E r \in calls[w].todo : HasRow(allocations, r.unit_id)

\* the weight of a unit under the category's method, and the sum of the
\* eligible units' weights that the method divides by
WeightOf(u) ==
  IF allocation_method = SHARES THEN SharesOrZero(units)[u] ELSE units[u].occupancy_count

WeightSum == SumOver(EligibleUnits(units), [u \in DOMAIN units |-> WeightOf(u)])

\* C18: when the category's building has an active unit, the mapping that
\* calculate_allocations returns has exactly the active units of that building
\* as its keys: no inactive unit, no unit of another building, none left out.
C18_KeysAreEligibleUnits ==
  (gen_result = "True" /\ EligibleUnits(units) # {})
    => AllocatedUnits = EligibleUnits(units)

\* C19: with SHARES when the eligible shares add up to 0, and with PER_PERSON
\* when the eligible occupancy adds up to 0, every eligible unit gets an entry
\* of amount 0.
C19_ZeroWeightsGiveZeros ==
  (gen_result = "True" /\ allocation_method \in {SHARES, PER_PERSON} /\ WeightSum = 0)
    => \A u \in EligibleUnits(units) :
         u \in AllocatedUnits /\ (\E r \in RowsOf(u) : r.amount = 0)

\* C20: with SHARES and with PER_PERSON, when the eligible weights add up to
\* more than 0, every eligible unit gets amount_total times its weight over
\* the sum of the weights (to the cent, i.e. within half a cent of it), and a
\* unit whose weight is null or 0 gets 0; shares 2 : 3 : 5 of 1000.00 give
\* 200.00, 300.00 and 500.00.
C20_ProportionalToWeight ==
  (gen_result = "True" /\ allocation_method \in {SHARES, PER_PERSON} /\ WeightSum > 0)
    => \A u \in EligibleUnits(units) :
         \E r \in RowsOf(u) :
           /\ 2 * (r.amount * WeightSum - amount_total * WeightOf(u)) <= WeightSum
           /\ 2 * (amount_total * WeightOf(u) - r.amount * WeightSum) <= WeightSum
           /\ (WeightOf(u) = 0) => (r.amount = 0)
           /\ (amount_total = 100000 /\ WeightSum = 10) => (r.amount = 10000 * WeightOf(u))

\* the example: shares 2, 3 and 5, amount_total 1000.00, allocated
C20_Witness ==
  /\ gen_result = "True"
  /\ allocation_method = SHARES
  /\ amount_total = 100000
  /\ \E u1, u2, u3 \in EligibleUnits(units) :
       /\ units[u1].shares = 2 /\ units[u2].shares = 3 /\ units[u3].shares = 5
       /\ EligibleUnits(units) = {u1, u2, u3}
       /\ \E r \in RowsOf(u1) : r.amount = 20000
       /\ \E r \in RowsOf(u2) : r.amount = 30000
       /\ \E r \in RowsOf(u3) : r.amount = 50000

\* ------------------------------------------------------------------------
\* Properties of the methods and of a successful allocation
\* ------------------------------------------------------------------------
NumEligible == Cardinality(EligibleUnits(units))

\* C21: PER_UNIT gives each of the N eligible units amount_total / N (to the
\* cent), so the amounts of any two units differ by one cent at most; with
\* N = 0 the mapping is empty, nothing is stored and nothing is raised for
\* a division by zero.
C21_PerUnitEqualParts ==
  (gen_result = "True" /\ allocation_method = PER_UNIT)
    => /\ AllocatedUnits = EligibleUnits(units)
       /\ \A u \in EligibleUnits(units) :
            \E r \in RowsOf(u) :
              /\ 2 * (r.amount * NumEligible - amount_total) <= NumEligible
              /\ 2 * (amount_total - r.amount * NumEligible) <= NumEligible
       /\ \A r1, r2 \in BagToSet(allocations) :
            r1.amount - r2.amount <= 1 /\ r2.amount - r1.amount <= 1
       /\ (NumEligible = 0) => (allocations = EmptyBag)

\* PER_UNIT has allocated an amount that does not divide evenly, some units
\* of the building being left out as not eligible
C21_Witness ==
  /\ gen_result = "True"
  /\ allocation_method = PER_UNIT
  /\ NumEligible >= 2
  /\ NumEligible < Cardinality(DOMAIN units)
  /\ amount_total = 1
  /\ \A u \in EligibleUnits(units) : RowsOf(u) # {}

\* C22: for a METERED or CUSTOM category generate_allocations does not fail on
\* the missing data: the call that allocates the expense (is_allocated set,
\* True returned) has stored exactly one row of amount 0 for every eligible
\* unit, and no other row.
C22_PlaceholderAllocates ==
  (allocation_method \in {METERED, CUSTOM} /\ is_allocated)
    => /\ gen_result \in {"True", "False"}
       /\ \A u \in EligibleUnits(units) :
            \E r \in RowsOf(u) :
              RowsOf(u) = {r} /\ r.amount = 0 /\ CopiesIn(r, allocations) = 1
       /\ \A r \in BagToSet(allocations) : r.unit_id \in EligibleUnits(units)

\* a METERED or CUSTOM expense with eligible units has been allocated
C22_Witness ==
  /\ allocation_method \in {METERED, CUSTOM}
  /\ gen_result = "True"
  /\ is_allocated
  /\ EligibleUnits(units) # {}
  /\ amount_total > 0
  /\ \A u \in EligibleUnits(units) : \E r \in RowsOf(u) : r.amount = 0

\* C23: a generate_allocations call that returns True on an unallocated
\* expense leaves is_allocated set and exactly one row for every eligible
\* unit, holding the amount computed for that unit.
C23_SuccessStoresEveryUnit ==
  (gen_result = "True")
    => /\ is_allocated
       /\ \E computed \in {calculate_allocations(units, allocation_method, amount_total)} :
            \A u \in EligibleUnits(units) :
              /\ u \in DOMAIN computed
              /\ \E r \in RowsOf(u) :
                   /\ RowsOf(u) = {r}
                   /\ CopiesIn(r, allocations) = 1
                   /\ r.amount = ToCents(computed[u])

\* ------------------------------------------------------------------------
\* Properties of overlapping payments
\* ------------------------------------------------------------------------
PaidByApplied == SumOver(applied, [p \in applied |-> p.amount])

\* C27: when two requests apply two different confirmed payments to the same
\* invoice at once, amount_paid ends up raised by both amounts, and the status
\* is the one update_status gives for that sum: no update is lost.
C27_NoLostUpdate ==
  (\A w \in Requests : applying[w].pc = "idle")
    => /\ amount_paid >= PaidByApplied
       /\ (last_op.op = "apply_to_invoice" /\ last_op.returned = "True")
            => status = update_status(status, amount_paid, amount_due, due_date, today)

\* ------------------------------------------------------------------------
\* Properties of the stored allocation rows
\* ------------------------------------------------------------------------
\* C24: an ExpenseAllocation row, once stored, keeps its amount and its
\* formula_snapshot: neither a change of the category's allocation_method
\* through api_update_category nor another call of generate_allocations
\* alters or removes it.
C24_RowsNeverChange ==
  [][\A r \in BagToSet(allocations) :
       CopiesIn(r, allocations') >= CopiesIn(r, allocations)]_vars

\* rows stored under the method the category had before it was changed stand
\* beside rows that a later call stored under the new method
C24_Witness ==
  /\ \E r \in BagToSet(allocations) : r.formula_snapshot.method # allocation_method
  /\ \E r \in BagToSet(allocations) : r.formula_snapshot.method = allocation_method
  /\ gen_result = "raised"

\* C25: the snapshot that generate_allocations writes with a row names the
\* rounding residual applied to it, beside the method and the total, so that
\* the stored amounts can be recomputed from the snapshot.
C25_SnapshotNamesResidual ==
  \A r \in BagToSet(allocations) : "residual" \in DOMAIN r.formula_snapshot

\* ------------------------------------------------------------------------
\* Further properties of the invoice lifecycle
\* ------------------------------------------------------------------------
\* C26: update_status called twice in a row, nothing else having changed,
\* leaves the status its first call stored, whatever the status was before.
C26_UpdateStatusIdempotent ==
  [][(last_op.op = "update_status" /\ Recomputes) => status' = status]_vars

\* ------------------------------------------------------------------------
\* Failure and retry of the allocation
\* ------------------------------------------------------------------------
\* C28: after generate_allocations was interrupted with some of its rows
\* committed and is_allocated still false, a later call can complete: it
\* returns True, with one row for every eligible unit and is_allocated set.
C28_RetryCompletes ==
  (~is_allocated /\ gen_result = "raised" /\ allocations # EmptyBag)
    => ENABLED (GenerateAllocations /\ gen_result' = "True" /\ is_allocated')

\* ------------------------------------------------------------------------
\* Order of the payments
\* ------------------------------------------------------------------------
\* the orders in which the payments of S can be applied, each once
Orderings(S) ==
  {s \in [1..Cardinality(S) -> S] : \A i, j \in 1..Cardinality(S) : s[i] = s[j] => i = j}

\* the confirmed payments of the invoice, the orders of every set of them,
\* and the sum of its amounts
LinkedPayments == {p \in Payments : Linked(p)}
OrderingsOf == [S \in SUBSET LinkedPayments |-> Orderings(S)]
AmountOf == [S \in SUBSET LinkedPayments |-> SumOver(S, [p \in S |-> p.amount])]

\* the invoice after apply_to_invoice of the payments of s, one after the other
RECURSIVE AppliedInOrder(_, _)
AppliedInOrder(s, inv) ==
  IF s = << >> THEN inv
  ELSE AppliedInOrder(Tail(s), apply_to_invoice(Head(s), inv, amount_due, due_date, today))

\* C29: from any invoice that is not cancelled, applying a set of distinct
\* confirmed payments, each once, leaves amount_paid at its value before plus
\* the sum of the payments, and leaves the same status, in whatever order the
\* payments are applied.
C29_OrderDoesNotMatter ==
  (status # CANCELLED)
    => \A S \in SUBSET LinkedPayments :
         \E after \in {{AppliedInOrder(s, [amount_paid |-> amount_paid, status |-> status]) :
                           s \in OrderingsOf[S]}} :
           /\ Cardinality(after) = 1
           /\ \A inv \in after : inv.amount_paid = amount_paid + AmountOf[S]

\* two different confirmed payments have been applied, one after the other:
\* the first left the invoice paid in part, the second paid it in full
C29_Witness ==
  /\ Cardinality(applied) >= 2
  /\ amount_paid = PaidByApplied
  /\ last_op.op = "apply_to_invoice" /\ last_op.returned = "True"
  /\ last_op.before.status = PARTIAL
  /\ status = PAID

\* ------------------------------------------------------------------------
\* Category codes
\* ------------------------------------------------------------------------
\* the categories of a building that have the code
WithCode(cats, building_id, code) ==
  {r \in BagToSet(cats) : r.building_id = building_id /\ r.code = code}

\* every row of cats is in later, as often
KeptIn(cats, later) ==
  \A r \in BagToSet(cats) : CopiesIn(r, later) = CopiesIn(r, cats)

\* C30: before and after every call of api_create_category, of
\* api_update_category and of api_import_categories no two categories of a
\* building have the same code.  A call that is refused changes no category;
\* a creation and an import leave every category that was there as it was
\* (the import skips the codes the building has); an update changes the one
\* category it names, and never to a code another category of the building
\* holds.
C30_CodesStayUnique ==
  [][/\ unique_category_code_per_building(categories)
     /\ unique_category_code_per_building(categories')
     /\ (response'.status # 200) => (categories' = categories)
     /\ (response'.route \in {"api_create_category", "api_import_categories"})
          => KeptIn(categories, categories')
     /\ (response'.route = "api_update_category")
          => \E r \in BagToSet(categories) :
               KeptIn(categories (-) SetToBag({r}), categories')]_vars

\* the standard list was imported into the building that had a category
\* "repairs": that category is the one it was, the other codes were added
C30_Witness ==
  /\ response = [route |-> "api_import_categories", status |-> 200]
  /\ \E r \in WithCode(categories, CategoryBuilding, "repairs") : r.has_expense
  /\ WithCode(categories, CategoryBuilding, "water") # {}
  /\ WithCode(categories, CategoryBuilding, "garage") # {}
  /\ unique_category_code_per_building(categories)
====
